---- MODULE Spec2Model ----
(***************************************************************************)
(* The battery module of runtime/src/battery.rs: the storage items of      *)
(* decl_storage!, and the six dispatchable functions of decl_module!, each *)
(* one atomic action.                                                      *)
(***************************************************************************)
EXTENDS Integers, Sequences, FiniteSets

\* ------------------------------------------------------------------ bounds
\* AccountId values are 1..NumAccounts.
NumAccounts == 2
\* T::Hash values are 0..MaxHash; 0 is Hash::default().
MaxHash == 1
\* T::Moment values are 0..MaxMoment.
MaxMoment == 0
\* Calls are issued while the event log holds fewer than MaxEvents events.
MaxEvents == 5

AccountId == 1..NumAccounts
Hash == 0..MaxHash
Moment == 0..MaxMoment

\* Option<AccountId>::None; Some(a) is the account a itself.
None == 0
\* An origin that ensure_signed rejects.
Unsigned == 0
Origin == AccountId \cup {Unsigned}
\* <T::Hash as Default>::default(), what a map to T::Hash yields for an absent key.
DefaultHash == 0

VARIABLES
    Batteries,                \* map T::Hash => Battery
    AllBatteriesCount,        \* u64
    AllBatteriesArray,        \* map u64 => T::Hash
    OwnedBatteriesCount,      \* map T::AccountId => u64
    OwnedBatteriesArray,      \* map (T::AccountId, u64) => T::Hash
    OwnedBatteriesIndex,      \* map T::Hash => u64
    StationsCount,            \* u64
    StationsArray,            \* map u64 => T::AccountId
    StationsIndex,            \* map T::AccountId => u64
    BatteriesCountInStation,  \* map T::AccountId => u64
    BatteriesArrayInStation,  \* map (T::AccountId, u64) => T::Hash
    BatteriesIndexInStation,  \* map T::Hash => u64
    events,                   \* the events deposited so far, oldest first
    call,                     \* the last dispatched call and its arguments
    result                    \* what the last call returned: "Ok" or the error

storage == <<Batteries, AllBatteriesCount, AllBatteriesArray,
             OwnedBatteriesCount, OwnedBatteriesArray, OwnedBatteriesIndex,
             StationsCount, StationsArray, StationsIndex,
             BatteriesCountInStation, BatteriesArrayInStation, BatteriesIndexInStation>>

vars == <<Batteries, AllBatteriesCount, AllBatteriesArray,
          OwnedBatteriesCount, OwnedBatteriesArray, OwnedBatteriesIndex,
          StationsCount, StationsArray, StationsIndex,
          BatteriesCountInStation, BatteriesArrayInStation, BatteriesIndexInStation,
          events, call, result>>

\* ------------------------------------------------------- storage primitives
\* A storage map is a function on the keys that exist.
exists(m, k) == k \in DOMAIN m

\* StorageMap::get: the stored value, or the value type's default.
get(m, k, default) == IF k \in DOMAIN m THEN m[k] ELSE default

insert(m, k, v) == [x \in DOMAIN m \cup {k} |-> IF x = k THEN v ELSE m[x]]

remove(m, k) == [x \in DOMAIN m \ {k} |-> m[x]]

\* An early return: nothing written, nothing deposited.
Fail(c, msg) ==
    /\ result' = msg
    /\ call' = c
    /\ UNCHANGED <<storage, events>>

\* Succeed without the deposit_event.
Succeed_without_event(c, event) ==
    /\ result' = "Ok"
    /\ call' = c
    /\ events' = events

\* deposit_event followed by Ok(()).
Succeed(c, event) ==
    /\ result' = "Ok"
    /\ call' = c
    /\ events' = Append(events, event)

Init ==
    /\ Batteries = << >>
    /\ AllBatteriesCount = 0
    /\ AllBatteriesArray = << >>
    /\ OwnedBatteriesCount = << >>
    /\ OwnedBatteriesArray = << >>
    /\ OwnedBatteriesIndex = << >>
    /\ StationsCount = 0
    /\ StationsArray = << >>
    /\ StationsIndex = << >>
    /\ BatteriesCountInStation = << >>
    /\ BatteriesArrayInStation = << >>
    /\ BatteriesIndexInStation = << >>
    /\ events = << >>
    /\ call = <<"genesis">>
    /\ result = "Ok"

\* ------------------------------------------------------------ dispatchables
register_station(origin) ==
    LET c == <<"register_station", origin>>
        sender == origin
    IN  IF origin = Unsigned THEN Fail(c, "bad origin")
        ELSE IF exists(StationsIndex, sender) THEN Fail(c, "Already been station!")
        ELSE /\ StationsArray' = insert(StationsArray, StationsCount, sender)
             /\ StationsIndex' = insert(StationsIndex, sender, StationsCount)
             /\ StationsCount' = StationsCount + 1
             /\ UNCHANGED <<Batteries, AllBatteriesCount, AllBatteriesArray,
                            OwnedBatteriesCount, OwnedBatteriesArray, OwnedBatteriesIndex,
                            BatteriesCountInStation, BatteriesArrayInStation,
                            BatteriesIndexInStation>>
             /\ Succeed(c, <<"RegistryStation", sender>>)

\* new_battery with the battery born tradable.
new_battery_tradable(random_hash, owner, sender, now) ==
    [id |-> random_hash, owner |-> owner, station |-> sender,
     tradable |-> TRUE, registry_time |-> now]

\* The Battery value built by registry_battery.
new_battery(random_hash, owner, sender, now) ==
    [id |-> random_hash, owner |-> owner, station |-> sender,
     tradable |-> FALSE, registry_time |-> now]

\* registry_battery_ensure without the check that the hash is new.
registry_battery_ensure_any_hash(sender, random_hash) ==
    IF ~exists(StationsIndex, sender) THEN "Not a station!"
    ELSE "Ok"

\* The checks of registry_battery: "Ok" or the error.
registry_battery_ensure(sender, random_hash) ==
    IF ~exists(StationsIndex, sender) THEN "Not a station!"
    ELSE IF exists(Batteries, random_hash) THEN "Battery already exists!"
    ELSE "Ok"

\* random_hash stands for the hash of the payload (random seed, owner, extrinsic
\* index, block number, battery count): any Hash value; now for timestamp::get().
registry_battery(origin, owner, random_hash, now) ==
    LET c == <<"registry_battery", origin, owner, random_hash>>
        sender == origin
        owned_count == get(OwnedBatteriesCount, owner, 0)
        station_count == get(BatteriesCountInStation, sender, 0)
        ensured == registry_battery_ensure(sender, random_hash)
    IN  IF origin = Unsigned THEN Fail(c, "bad origin")
        ELSE IF ensured # "Ok" THEN Fail(c, ensured)
        ELSE /\ Batteries' = insert(Batteries, random_hash,
                                    new_battery(random_hash, owner, sender, now))
             /\ AllBatteriesArray' = insert(AllBatteriesArray, AllBatteriesCount, random_hash)
             /\ AllBatteriesCount' = AllBatteriesCount + 1
             /\ OwnedBatteriesArray' =
                    insert(OwnedBatteriesArray, <<owner, owned_count>>, random_hash)
             /\ OwnedBatteriesIndex' = insert(OwnedBatteriesIndex, random_hash, owned_count)
             /\ OwnedBatteriesCount' = insert(OwnedBatteriesCount, owner, owned_count + 1)
             /\ BatteriesArrayInStation' =
                    insert(BatteriesArrayInStation, <<sender, station_count>>, random_hash)
             /\ BatteriesIndexInStation' =
                    insert(BatteriesIndexInStation, random_hash, station_count)
             /\ BatteriesCountInStation' =
                    insert(BatteriesCountInStation, sender, station_count + 1)
             /\ UNCHANGED <<StationsCount, StationsArray, StationsIndex>>
             /\ Succeed(c, <<"RegistryBattery", sender, random_hash, owner>>)

\* switch_tradable_ensure without the check that the battery is in a station.
switch_tradable_ensure_any_place(battery, sender) ==
    IF battery.owner # sender THEN "You are not the owner of this battery"
    ELSE "Ok"

\* The checks of switch_tradable on the stored battery: "Ok" or the error.
switch_tradable_ensure(battery, sender) ==
    IF battery.owner # sender THEN "You are not the owner of this battery"
    ELSE IF battery.station = None THEN "Battery must be in station"
    ELSE "Ok"

\* switched_battery setting tradable where it should toggle it.
switched_battery_sets(battery) ==
    [battery EXCEPT !.tradable = TRUE]

\* The battery as switch_tradable writes it back.
switched_battery(battery) ==
    [battery EXCEPT !.tradable = ~battery.tradable]

switch_tradable(origin, id) ==
    LET c == <<"switch_tradable", origin, id>>
        sender == origin
    IN  IF origin = Unsigned THEN Fail(c, "bad origin")
        ELSE IF ~exists(Batteries, id) THEN Fail(c, "Id does not exist")
        ELSE LET battery == Batteries[id]
                 ensured == switch_tradable_ensure(battery, sender)
                 switched == switched_battery(battery)
             IN  IF ensured # "Ok" THEN Fail(c, ensured)
                 ELSE /\ Batteries' = insert(Batteries, id, switched)
                      /\ UNCHANGED <<AllBatteriesCount, AllBatteriesArray,
                                     OwnedBatteriesCount, OwnedBatteriesArray,
                                     OwnedBatteriesIndex,
                                     StationsCount, StationsArray, StationsIndex,
                                     BatteriesCountInStation, BatteriesArrayInStation,
                                     BatteriesIndexInStation>>
                      /\ Succeed(c, <<"SwitchTradable", id, switched.tradable>>)

store_to_station(origin, id) ==
    LET c == <<"store_to_station", origin, id>>
        sender == origin
        station_count == get(BatteriesCountInStation, sender, 0)
    IN  IF origin = Unsigned THEN Fail(c, "bad origin")
        ELSE IF ~exists(StationsIndex, sender) THEN Fail(c, "Sender is not a station")
        ELSE IF ~exists(Batteries, id) THEN Fail(c, "Battery does not exist")
        ELSE LET battery == Batteries[id]
                 stored == [battery EXCEPT !.station = sender]
             IN  IF battery.station # None
                 THEN Fail(c, "Station of the battery must be None")
                 ELSE /\ Batteries' = insert(Batteries, id, stored)
                      /\ BatteriesArrayInStation' =
                             insert(BatteriesArrayInStation, <<sender, station_count>>, id)
                      /\ BatteriesIndexInStation' =
                             insert(BatteriesIndexInStation, id, station_count)
                      /\ BatteriesCountInStation' =
                             insert(BatteriesCountInStation, sender, station_count + 1)
                      /\ UNCHANGED <<AllBatteriesCount, AllBatteriesArray,
                                     OwnedBatteriesCount, OwnedBatteriesArray,
                                     OwnedBatteriesIndex,
                                     StationsCount, StationsArray, StationsIndex>>
                      /\ Succeed(c, <<"StoreToStation", id, battery.owner, sender>>)

\* fetch_battery without the reset of tradable.
fetch_battery_keeps_tradable(battery) ==
    [battery EXCEPT !.station = None]

\* fetch_battery building the battery anew from its owner, the other fields
\* left to Default::default().
fetch_battery_anew(battery) ==
    [id |-> DefaultHash, owner |-> battery.owner, station |-> None,
     tradable |-> FALSE, registry_time |-> 0]

\* The battery as fetch_from_station writes it back.
fetch_battery(battery) ==
    [battery EXCEPT !.station = None, !.tradable = FALSE]

\* fetch_from_station_sets reading the slot of id where it should read the last
\* slot, as trade_battery does for the owner's slots.
fetch_from_station_sets_own_slot(station, id) ==
    LET battery_index == get(BatteriesIndexInStation, id, 0)
        batteries_count == get(BatteriesCountInStation, station, 0)
        not_last == batteries_count # battery_index + 1
        last_battery_id ==
            get(BatteriesArrayInStation, <<station, battery_index>>, DefaultHash)
        array1 == IF not_last
                  THEN insert(BatteriesArrayInStation, <<station, battery_index>>,
                              last_battery_id)
                  ELSE BatteriesArrayInStation
        index1 == IF not_last
                  THEN insert(BatteriesIndexInStation, last_battery_id, battery_index)
                  ELSE BatteriesIndexInStation
    IN  [array |-> remove(array1, <<station, batteries_count - 1>>),
         index |-> remove(index1, id),
         count |-> insert(BatteriesCountInStation, station, batteries_count - 1)]

\* fetch_from_station_sets without the decrement of the station's count.
fetch_from_station_sets_same_count(station, id) ==
    LET battery_index == get(BatteriesIndexInStation, id, 0)
        batteries_count == get(BatteriesCountInStation, station, 0)
        not_last == batteries_count # battery_index + 1
        last_battery_id ==
            get(BatteriesArrayInStation, <<station, batteries_count - 1>>, DefaultHash)
        array1 == IF not_last
                  THEN insert(BatteriesArrayInStation, <<station, battery_index>>,
                              last_battery_id)
                  ELSE BatteriesArrayInStation
        index1 == IF not_last
                  THEN insert(BatteriesIndexInStation, last_battery_id, battery_index)
                  ELSE BatteriesIndexInStation
    IN  [array |-> remove(array1, <<station, batteries_count - 1>>),
         index |-> remove(index1, id),
         count |-> BatteriesCountInStation]

\* fetch_from_station_sets taking one off the station's count twice, as by
\* writing the new count and then mutating it.
fetch_from_station_sets_twice(station, id) ==
    LET battery_index == get(BatteriesIndexInStation, id, 0)
        batteries_count == get(BatteriesCountInStation, station, 0)
        not_last == batteries_count # battery_index + 1
        last_battery_id ==
            get(BatteriesArrayInStation, <<station, batteries_count - 1>>, DefaultHash)
        array1 == IF not_last
                  THEN insert(BatteriesArrayInStation, <<station, battery_index>>,
                              last_battery_id)
                  ELSE BatteriesArrayInStation
        index1 == IF not_last
                  THEN insert(BatteriesIndexInStation, last_battery_id, battery_index)
                  ELSE BatteriesIndexInStation
    IN  [array |-> remove(array1, <<station, batteries_count - 1>>),
         index |-> remove(index1, id),
         count |-> insert(BatteriesCountInStation, station, batteries_count - 1 - 1)]

\* fetch_from_station_sets without the removal of the last slot.
fetch_from_station_sets_keeps_slot(station, id) ==
    LET battery_index == get(BatteriesIndexInStation, id, 0)
        batteries_count == get(BatteriesCountInStation, station, 0)
        not_last == batteries_count # battery_index + 1
        last_battery_id ==
            get(BatteriesArrayInStation, <<station, batteries_count - 1>>, DefaultHash)
        array1 == IF not_last
                  THEN insert(BatteriesArrayInStation, <<station, battery_index>>,
                              last_battery_id)
                  ELSE BatteriesArrayInStation
        index1 == IF not_last
                  THEN insert(BatteriesIndexInStation, last_battery_id, battery_index)
                  ELSE BatteriesIndexInStation
    IN  [array |-> array1,
         index |-> remove(index1, id),
         count |-> insert(BatteriesCountInStation, station, batteries_count - 1)]

\* The station's array, index and count after fetch_from_station has taken id
\* out of station's batteries.
fetch_from_station_sets(station, id) ==
    LET battery_index == get(BatteriesIndexInStation, id, 0)
        batteries_count == get(BatteriesCountInStation, station, 0)
        not_last == batteries_count # battery_index + 1
        last_battery_id ==
            get(BatteriesArrayInStation, <<station, batteries_count - 1>>, DefaultHash)
        array1 == IF not_last
                  THEN insert(BatteriesArrayInStation, <<station, battery_index>>,
                              last_battery_id)
                  ELSE BatteriesArrayInStation
        index1 == IF not_last
                  THEN insert(BatteriesIndexInStation, last_battery_id, battery_index)
                  ELSE BatteriesIndexInStation
    IN  [array |-> remove(array1, <<station, batteries_count - 1>>),
         index |-> remove(index1, id),
         count |-> insert(BatteriesCountInStation, station, batteries_count - 1)]

fetch_from_station(origin, id) ==
    LET c == <<"fetch_from_station", origin, id>>
        sender == origin
    IN  IF origin = Unsigned THEN Fail(c, "bad origin")
        ELSE IF ~exists(Batteries, id) THEN Fail(c, "Battery does not exist")
        ELSE LET battery == Batteries[id]
                 station == battery.station
                 sets == fetch_from_station_sets(station, id)
                 fetched == fetch_battery(battery)
             IN  IF battery.owner # sender
                 THEN Fail(c, "You are not the owner of this battery")
                 ELSE IF station = None THEN Fail(c, "No station for this battery")
                 ELSE /\ BatteriesArrayInStation' = sets.array
                      /\ BatteriesIndexInStation' = sets.index
                      /\ BatteriesCountInStation' = sets.count
                      /\ Batteries' = insert(Batteries, id, fetched)
                      /\ UNCHANGED <<AllBatteriesCount, AllBatteriesArray,
                                     OwnedBatteriesCount, OwnedBatteriesArray,
                                     OwnedBatteriesIndex,
                                     StationsCount, StationsArray, StationsIndex>>
                      /\ Succeed(c, <<"FetchFromStation", id, sender, fetched.owner>>)

\* trade_battery_ensure without the check that to is another account.
trade_battery_ensure_any_to(battery, sender, to) ==
    IF battery.station # sender THEN "Sender must be the station of this battery"
    ELSE IF ~battery.tradable THEN "Battery must be tradable"
    ELSE "Ok"

\* trade_battery_ensure without the check that the battery is tradable.
trade_battery_ensure_not_tradable(battery, sender, to) ==
    IF battery.station # sender THEN "Sender must be the station of this battery"
    ELSE IF battery.owner = to THEN "To account can't be the owner of this battery"
    ELSE "Ok"

\* The checks of trade_battery on the stored battery: "Ok" or the error.
trade_battery_ensure(battery, sender, to) ==
    IF battery.station # sender THEN "Sender must be the station of this battery"
    ELSE IF ~battery.tradable THEN "Battery must be tradable"
    ELSE IF battery.owner = to THEN "To account can't be the owner of this battery"
    ELSE "Ok"

\* traded_battery without the reset of tradable.
traded_battery_keeps_tradable(battery, to) ==
    [battery EXCEPT !.owner = to]

\* traded_battery taking the battery out of its station as well.
traded_battery_leaves_station(battery, to) ==
    [battery EXCEPT !.owner = to, !.tradable = FALSE, !.station = None]

\* The battery as trade_battery writes it back.
traded_battery(battery, to) ==
    [battery EXCEPT !.owner = to, !.tradable = FALSE]

\* trade_battery_sets without the write of the previous owner's count.
trade_battery_sets_same_count(from, to, id) ==
    LET owned_battery_count_from == get(OwnedBatteriesCount, from, 0)
        owned_battery_count_to == get(OwnedBatteriesCount, to, 0)
        new_owned_battery_count_from == owned_battery_count_from - 1
        new_owned_battery_count_to == owned_battery_count_to + 1
        owned_battery_index == get(OwnedBatteriesIndex, id, 0)
        not_last == owned_battery_index # new_owned_battery_count_from
        last_battery_id_from ==
            get(OwnedBatteriesArray, <<from, owned_battery_index>>, DefaultHash)
        array1 == IF not_last
                  THEN insert(OwnedBatteriesArray, <<from, owned_battery_index>>,
                              last_battery_id_from)
                  ELSE OwnedBatteriesArray
        index1 == IF not_last
                  THEN insert(OwnedBatteriesIndex, last_battery_id_from,
                              owned_battery_index)
                  ELSE OwnedBatteriesIndex
        index2 == insert(index1, id, owned_battery_count_to)
        array2 == remove(array1, <<from, new_owned_battery_count_from>>)
        array3 == insert(array2, <<to, owned_battery_count_to>>, id)
        count2 == insert(OwnedBatteriesCount, to, new_owned_battery_count_to)
    IN  [array |-> array3, index |-> index2, count |-> count2]

\* The owners' array, index and count after the "change state" block of
\* trade_battery has moved id from from to to.
trade_battery_sets(from, to, id) ==
    LET owned_battery_count_from == get(OwnedBatteriesCount, from, 0)
        owned_battery_count_to == get(OwnedBatteriesCount, to, 0)
        new_owned_battery_count_from == owned_battery_count_from - 1
        new_owned_battery_count_to == owned_battery_count_to + 1
        owned_battery_index == get(OwnedBatteriesIndex, id, 0)
        not_last == owned_battery_index # new_owned_battery_count_from
        last_battery_id_from ==
            get(OwnedBatteriesArray, <<from, owned_battery_index>>, DefaultHash)
        array1 == IF not_last
                  THEN insert(OwnedBatteriesArray, <<from, owned_battery_index>>,
                              last_battery_id_from)
                  ELSE OwnedBatteriesArray
        index1 == IF not_last
                  THEN insert(OwnedBatteriesIndex, last_battery_id_from,
                              owned_battery_index)
                  ELSE OwnedBatteriesIndex
        index2 == insert(index1, id, owned_battery_count_to)
        array2 == remove(array1, <<from, new_owned_battery_count_from>>)
        array3 == insert(array2, <<to, owned_battery_count_to>>, id)
        count1 == insert(OwnedBatteriesCount, from, new_owned_battery_count_from)
        count2 == insert(count1, to, new_owned_battery_count_to)
    IN  [array |-> array3, index |-> index2, count |-> count2]

trade_battery(origin, id, to) ==
    LET c == <<"trade_battery", origin, id, to>>
        sender == origin
    IN  IF origin = Unsigned THEN Fail(c, "bad origin")
        ELSE IF ~exists(StationsIndex, sender) THEN Fail(c, "Sender is not a station")
        ELSE IF ~exists(Batteries, id) THEN Fail(c, "Battery does not exist")
        ELSE LET battery == Batteries[id]
                 ensured == trade_battery_ensure(battery, sender, to)
                 from == battery.owner
                 sets == trade_battery_sets(from, to, id)
             IN  IF ensured # "Ok" THEN Fail(c, ensured)
                 ELSE /\ Batteries' = insert(Batteries, id, traded_battery(battery, to))
                      /\ OwnedBatteriesIndex' = sets.index
                      /\ OwnedBatteriesArray' = sets.array
                      /\ OwnedBatteriesCount' = sets.count
                      /\ UNCHANGED <<AllBatteriesCount, AllBatteriesArray,
                                     StationsCount, StationsArray, StationsIndex,
                                     BatteriesCountInStation, BatteriesArrayInStation,
                                     BatteriesIndexInStation>>
                      /\ Succeed(c, <<"Trade", id, from, to, sender>>)

\* Calls are dispatched one at a time, in any order, by any origin.
MoreCalls == Len(events) < MaxEvents

\* The calls that return Ok(()).
RegisterStation ==
    MoreCalls /\ \E origin \in Origin : result' = "Ok" /\ register_station(origin)

RegistryBattery ==
    MoreCalls /\ \E origin \in Origin, owner \in AccountId, random_hash \in Hash,
                    now \in Moment :
                     result' = "Ok" /\ registry_battery(origin, owner, random_hash, now)

SwitchTradable ==
    MoreCalls /\ \E origin \in Origin, id \in Hash :
                     result' = "Ok" /\ switch_tradable(origin, id)

StoreToStation ==
    MoreCalls /\ \E origin \in Origin, id \in Hash :
                     result' = "Ok" /\ store_to_station(origin, id)

FetchFromStation ==
    MoreCalls /\ \E origin \in Origin, id \in Hash :
                     result' = "Ok" /\ fetch_from_station(origin, id)

TradeBattery ==
    MoreCalls /\ \E origin \in Origin, id \in Hash, to \in AccountId :
                     result' = "Ok" /\ trade_battery(origin, id, to)

Next ==
    \/ RegisterStation
    \/ RegistryBattery
    \/ SwitchTradable
    \/ StoreToStation
    \/ FetchFromStation
    \/ TradeBattery

\* The behaviours of the storage and the event log: a call that returns an error
\* changes neither, so only the calls that return Ok(()) are steps.
Spec == Init /\ [][Next]_vars

\* The calls that return an error.
RegisterStationErr ==
    MoreCalls /\ \E origin \in Origin : register_station(origin) /\ result' # "Ok"

RegistryBatteryErr ==
    MoreCalls /\ \E origin \in Origin, owner \in AccountId, random_hash \in Hash,
                    now \in Moment :
                     registry_battery(origin, owner, random_hash, now) /\ result' # "Ok"

SwitchTradableErr ==
    MoreCalls /\ \E origin \in Origin, id \in Hash :
                     switch_tradable(origin, id) /\ result' # "Ok"

StoreToStationErr ==
    MoreCalls /\ \E origin \in Origin, id \in Hash :
                     store_to_station(origin, id) /\ result' # "Ok"

FetchFromStationErr ==
    MoreCalls /\ \E origin \in Origin, id \in Hash :
                     fetch_from_station(origin, id) /\ result' # "Ok"

TradeBatteryErr ==
    MoreCalls /\ \E origin \in Origin, id \in Hash, to \in AccountId :
                     trade_battery(origin, id, to) /\ result' # "Ok"

NextCalls ==
    \/ RegisterStation
    \/ RegistryBattery
    \/ SwitchTradable
    \/ StoreToStation
    \/ FetchFromStation
    \/ TradeBattery
    \/ RegisterStationErr
    \/ RegistryBatteryErr
    \/ SwitchTradableErr
    \/ StoreToStationErr
    \/ FetchFromStationErr
    \/ TradeBatteryErr

\* Every call, the rejected ones included, with what it returned.
SpecCalls == Init /\ [][NextCalls]_vars

\* ------------------------------------------------------------------ claims
Existing == DOMAIN Batteries

\* id sits in slot i of partition p of a partitioned set.
Holds(array, p, i, id) == <<p, i>> \in DOMAIN array /\ array[<<p, i>>] = id

\* The live slots of partition p: the indices below its count.
Live(count, p) == 0..(get(count, p, 0) - 1)

\* The ids in the live slots of partition p.
Members(array, count, p) ==
    {array[<<p, i>>] : i \in {j \in Live(count, p) : <<p, j>> \in DOMAIN array}}

\* C1: every existing battery has exactly one entry in its owner's partition:
\* its index is below the owner's count, the owner's slot at that index holds
\* it, and it is in no other live slot of any owner.
OwnerPartitionInv ==
    \A id \in Existing :
        LET o == Batteries[id].owner IN
        /\ id \in DOMAIN OwnedBatteriesIndex
        /\ OwnedBatteriesIndex[id] \in Live(OwnedBatteriesCount, o)
        /\ Holds(OwnedBatteriesArray, o, OwnedBatteriesIndex[id], id)
        /\ \A a \in AccountId : \A i \in Live(OwnedBatteriesCount, a) :
               Holds(OwnedBatteriesArray, a, i, id)
                   => (a = o /\ i = OwnedBatteriesIndex[id])

\* C2: a successful trade_battery swap-removes id from the previous owner's
\* partition: from a slot that is not the last, the last member moves into
\* id's slot with its index updated and nobody else moves; from the last slot
\* nobody moves; either way the previous owner's live members are the old ones
\* without id.
TradeSwapRemove ==
    [][(call'[1] = "trade_battery" /\ result' = "Ok") =>
        LET id == call'[3]
            from == Batteries[id].owner
            i == OwnedBatteriesIndex[id]
            n == get(OwnedBatteriesCount, from, 0)
            last == get(OwnedBatteriesArray, <<from, n - 1>>, DefaultHash)
            others == Members(OwnedBatteriesArray, OwnedBatteriesCount, from) \ {id}
        IN  /\ i # n - 1 =>
                /\ Holds(OwnedBatteriesArray', from, i, last)
                /\ OwnedBatteriesIndex'[last] = i
                /\ \A m \in others \ {last} :
                       /\ OwnedBatteriesIndex'[m] = OwnedBatteriesIndex[m]
                       /\ Holds(OwnedBatteriesArray', from, OwnedBatteriesIndex[m], m)
            /\ i = n - 1 =>
                \A m \in others :
                    /\ OwnedBatteriesIndex'[m] = OwnedBatteriesIndex[m]
                    /\ Holds(OwnedBatteriesArray', from, OwnedBatteriesIndex[m], m)
            /\ Members(OwnedBatteriesArray', OwnedBatteriesCount', from) = others
      ]_vars

\* C3: a battery whose station is Some(s) has exactly one entry in s's
\* partition and is in no live slot of another station; a battery whose station
\* is None has no index entry and is in no live slot of any station.
StationPartitionInv ==
    \A id \in Existing :
        LET s == Batteries[id].station IN
        IF s # None
        THEN /\ id \in DOMAIN BatteriesIndexInStation
             /\ BatteriesIndexInStation[id] \in Live(BatteriesCountInStation, s)
             /\ Holds(BatteriesArrayInStation, s, BatteriesIndexInStation[id], id)
             /\ \A a \in AccountId : \A i \in Live(BatteriesCountInStation, a) :
                    Holds(BatteriesArrayInStation, a, i, id)
                        => (a = s /\ i = BatteriesIndexInStation[id])
        ELSE /\ id \notin DOMAIN BatteriesIndexInStation
             /\ \A a \in AccountId : \A i \in Live(BatteriesCountInStation, a) :
                    ~Holds(BatteriesArrayInStation, a, i, id)

\* A station has registered two batteries and the first of them has then been
\* fetched, so the second has moved into its slot; the fetched one is with its owner.
StationPartitionWitness ==
    \E s \in AccountId, k \in 1..Len(events) : \E id1, id2 \in Existing :
        /\ k + 2 <= Len(events)
        /\ events[k][1] = "RegistryBattery" /\ events[k][2] = s /\ events[k][3] = id1
        /\ events[k + 1][1] = "RegistryBattery" /\ events[k + 1][2] = s
        /\ events[k + 1][3] = id2
        /\ events[k + 2][1] = "FetchFromStation" /\ events[k + 2][2] = id1
        /\ Len(events) = k + 2
        /\ Batteries[id1].station = None
        /\ Batteries[id2].station = s

\* C4: each count is the number of batteries of its partition: an owner's count
\* the number of batteries he owns, a station's count the number of batteries
\* it holds, AllBatteriesCount the number of batteries.
CountsInv ==
    /\ \A o \in AccountId :
           get(OwnedBatteriesCount, o, 0)
               = Cardinality({id \in Existing : Batteries[id].owner = o})
    /\ \A s \in AccountId :
           get(BatteriesCountInStation, s, 0)
               = Cardinality({id \in Existing : Batteries[id].station = s})
    /\ AllBatteriesCount = Cardinality(Existing)

\* A battery has just been traded away from an owner who keeps another one.
CountsWitness ==
    /\ call[1] = "trade_battery"
    /\ \E e \in {events[Len(events)]} :
           /\ e[1] = "Trade"
           /\ get(OwnedBatteriesCount, e[3], 0) = 1
           /\ get(OwnedBatteriesCount, e[4], 0) = 1

\* C5: a tradable battery is in a station.
TradableInStation ==
    \A id \in Existing : Batteries[id].tradable => Batteries[id].station # None

\* A battery switched to tradable has then been fetched from its station.
TradableInStationWitness ==
    /\ Len(events) >= 2
    /\ LET e == events[Len(events)]
           d == events[Len(events) - 1]
       IN  /\ d[1] = "SwitchTradable" /\ d[3] = TRUE
           /\ e[1] = "FetchFromStation" /\ e[2] = d[2]
           /\ Batteries[e[2]].station = None

IsStation(a) == a \in DOMAIN StationsIndex

\* The preconditions of call c, as the operations' table states them, in the
\* state the call is made in.
Precondition(c) ==
    IF c[2] = Unsigned THEN FALSE
    ELSE IF c[1] = "register_station" THEN ~IsStation(c[2])
    ELSE IF c[1] = "registry_battery" THEN IsStation(c[2]) /\ c[4] \notin Existing
    ELSE IF c[1] = "switch_tradable"
        THEN /\ c[3] \in Existing
             /\ Batteries[c[3]].owner = c[2]
             /\ Batteries[c[3]].station # None
    ELSE IF c[1] = "store_to_station"
        THEN /\ IsStation(c[2])
             /\ c[3] \in Existing
             /\ Batteries[c[3]].station = None
    ELSE IF c[1] = "fetch_from_station"
        THEN /\ c[3] \in Existing
             /\ Batteries[c[3]].owner = c[2]
             /\ Batteries[c[3]].station # None
    ELSE /\ c[1] = "trade_battery"
         /\ IsStation(c[2])
         /\ c[3] \in Existing
         /\ Batteries[c[3]].station = c[2]
         /\ Batteries[c[3]].tradable
         /\ Batteries[c[3]].owner # c[4]

\* C6: a call one of whose preconditions fails returns an error, writes no
\* storage item and deposits no event.
FailedCallChangesNothing ==
    [][~Precondition(call') =>
           /\ result' # "Ok"
           /\ UNCHANGED <<storage, events>>
      ]_vars

\* trade_battery has just been refused because to already owns the battery,
\* every other precondition holding.
FailedCallWitness ==
    /\ call[1] = "trade_battery"
    /\ result = "To account can't be the owner of this battery"
    /\ IsStation(call[2])
    /\ call[3] \in Existing
    /\ Batteries[call[3]].station = call[2]
    /\ Batteries[call[3]].tradable
    /\ Batteries[call[3]].owner = call[4]

\* The state of id in the diagram of the operations.
Lifecycle(batteries, id) ==
    IF id \notin DOMAIN batteries THEN <<"Unregistered">>
    ELSE IF batteries[id].station # None THEN <<"AtStation", batteries[id].tradable>>
    ELSE <<"WithOwner", batteries[id].tradable>>

\* The edges of the diagram, each with the calls that may take it.
DiagramEdge(before, after, op) ==
    \/ before = <<"Unregistered">> /\ after = <<"AtStation", FALSE>>
           /\ op = "registry_battery"
    \/ before = <<"AtStation", FALSE>> /\ after = <<"AtStation", TRUE>>
    \/ before = <<"AtStation", TRUE>> /\ after = <<"AtStation", FALSE>>
    \/ before = <<"AtStation", TRUE>> /\ after = <<"WithOwner", FALSE>>
    \/ before = <<"WithOwner", FALSE>> /\ after = <<"AtStation", FALSE>>
           /\ op = "store_to_station"

\* C7, as claimed: every change of a battery's (station, tradable) state follows
\* an edge of the diagram; WithOwner is entered from AtStation(tradable) only.
LifecycleAsClaimed ==
    [][\A id \in Hash :
           Lifecycle(Batteries', id) # Lifecycle(Batteries, id) =>
               DiagramEdge(Lifecycle(Batteries, id), Lifecycle(Batteries', id), call'[1])
      ]_vars

\* C7, amended: every change of a battery's (station, tradable) state follows an
\* edge of the diagram or is a fetch_from_station from AtStation(tradable=false)
\* to WithOwner(tradable=false).
LifecycleAmended ==
    [][\A id \in Hash :
           Lifecycle(Batteries', id) # Lifecycle(Batteries, id) =>
               \/ DiagramEdge(Lifecycle(Batteries, id), Lifecycle(Batteries', id),
                              call'[1])
               \/ /\ Lifecycle(Batteries, id) = <<"AtStation", FALSE>>
                  /\ Lifecycle(Batteries', id) = <<"WithOwner", FALSE>>
                  /\ call'[1] = "fetch_from_station"
      ]_vars

\* A battery has been fetched right after its registration, never tradable.
LifecycleWitness ==
    /\ Len(events) >= 2
    /\ LET e == events[Len(events)]
           d == events[Len(events) - 1]
       IN  /\ d[1] = "RegistryBattery"
           /\ e[1] = "FetchFromStation" /\ e[2] = d[3]
           /\ Lifecycle(Batteries, e[2]) = <<"WithOwner", FALSE>>

\* C8: registry_battery(owner) called by station sender with the fresh id
\* random_hash returns Ok(()) and creates the battery (owner, Some(sender),
\* not tradable), appends the id to the global array at the old global count,
\* to owner's partition and to sender's partition, each count growing by one,
\* and changes no other battery and no other partition.
RegistryBatteryEffect ==
    [][(call'[1] = "registry_battery" /\ Precondition(call')) =>
        LET sender == call'[2]
            owner == call'[3]
            id == call'[4]
            owned == get(OwnedBatteriesCount, owner, 0)
            held == get(BatteriesCountInStation, sender, 0)
        IN  /\ result' = "Ok"
            /\ DOMAIN Batteries' = Existing \cup {id}
            /\ \A other \in Existing : Batteries'[other] = Batteries[other]
            /\ Batteries'[id].id = id
            /\ Batteries'[id].owner = owner
            /\ Batteries'[id].station = sender
            /\ Batteries'[id].tradable = FALSE
            /\ AllBatteriesArray' = insert(AllBatteriesArray, AllBatteriesCount, id)
            /\ AllBatteriesCount' = AllBatteriesCount + 1
            /\ OwnedBatteriesArray' = insert(OwnedBatteriesArray, <<owner, owned>>, id)
            /\ OwnedBatteriesIndex' = insert(OwnedBatteriesIndex, id, owned)
            /\ OwnedBatteriesCount' = insert(OwnedBatteriesCount, owner, owned + 1)
            /\ BatteriesArrayInStation' =
                   insert(BatteriesArrayInStation, <<sender, held>>, id)
            /\ BatteriesIndexInStation' = insert(BatteriesIndexInStation, id, held)
            /\ BatteriesCountInStation' =
                   insert(BatteriesCountInStation, sender, held + 1)
            /\ UNCHANGED <<StationsCount, StationsArray, StationsIndex>>
      ]_vars

\* The first battery has been registered: its owner's partition and its
\* station's partition have one member each.
RegistryBatteryWitness ==
    /\ call[1] = "registry_battery" /\ result = "Ok"
    /\ AllBatteriesCount = 1
    /\ get(OwnedBatteriesCount, call[3], 0) = 1
    /\ get(BatteriesCountInStation, call[2], 0) = 1
    /\ Batteries[call[4]].station = call[2]

\* C9: a successful trade_battery(id, to) by station sender found the battery in
\* sender's custody, tradable and owned by another account; it makes to the
\* owner, resets tradable, keeps the station, takes one off the previous owner's
\* count, adds one to to's count and puts id in to's slot at to's old count,
\* with its index set to that slot.
TradeBatteryEffect ==
    [][(call'[1] = "trade_battery" /\ result' = "Ok") =>
        LET sender == call'[2]
            id == call'[3]
            to == call'[4]
            from == Batteries[id].owner
            count_to == get(OwnedBatteriesCount, to, 0)
        IN  /\ IsStation(sender) /\ id \in Existing
            /\ Batteries[id].station = sender
            /\ Batteries[id].tradable
            /\ from # to
            /\ Batteries'[id].owner = to
            /\ Batteries'[id].tradable = FALSE
            /\ Batteries'[id].station = Batteries[id].station
            /\ get(OwnedBatteriesCount', from, 0) = get(OwnedBatteriesCount, from, 0) - 1
            /\ get(OwnedBatteriesCount', to, 0) = count_to + 1
            /\ Holds(OwnedBatteriesArray', to, count_to, id)
            /\ id \in DOMAIN OwnedBatteriesIndex'
            /\ OwnedBatteriesIndex'[id] = count_to
      ]_vars

\* A battery has been traded to an account that already owned one.
TradeBatteryWitness ==
    /\ call[1] = "trade_battery" /\ result = "Ok"
    /\ Batteries[call[3]].owner = call[4]
    /\ get(OwnedBatteriesCount, call[4], 0) = 2
    /\ OwnedBatteriesIndex[call[3]] = 1

\* C10: a successful fetch_from_station(id) by the owner of a battery held by
\* station s sets its station to None and tradable to false whatever it was,
\* keeps its owner, takes one off s's count and removes id's index entry.
FetchFromStationEffect ==
    [][(call'[1] = "fetch_from_station" /\ result' = "Ok") =>
        LET sender == call'[2]
            id == call'[3]
            s == Batteries[id].station
        IN  /\ id \in Existing
            /\ Batteries[id].owner = sender
            /\ s # None
            /\ Batteries'[id].station = None
            /\ Batteries'[id].tradable = FALSE
            /\ Batteries'[id].owner = Batteries[id].owner
            /\ get(BatteriesCountInStation', s, 0) = get(BatteriesCountInStation, s, 0) - 1
            /\ get(BatteriesCountInStation', s, 0) >= 0
            /\ id \notin DOMAIN BatteriesIndexInStation'
      ]_vars

\* The only battery of a station, registered there and switched to tradable,
\* has been fetched: the station's count is 0.
FetchFromStationWitness ==
    /\ Len(events) >= 3
    /\ LET e == events[Len(events)]
           d == events[Len(events) - 1]
           r == events[Len(events) - 2]
       IN  /\ r[1] = "RegistryBattery"
           /\ d[1] = "SwitchTradable" /\ d[2] = r[3] /\ d[3] = TRUE
           /\ e[1] = "FetchFromStation" /\ e[2] = r[3]
           /\ AllBatteriesCount = 1
           /\ BatteriesCountInStation[r[2]] = 0
           /\ ~Batteries[e[2]].tradable

\* C11: a successful fetch_from_station swap-removes id from its station's
\* partition: from a slot that is not the last, the last member moves into
\* id's slot with its index updated and nobody else moves; from the last slot
\* nobody moves; either way the last slot is cleared and the station's live
\* members are the old ones without id.
FetchSwapRemove ==
    [][(call'[1] = "fetch_from_station" /\ result' = "Ok") =>
        LET id == call'[3]
            s == Batteries[id].station
            i == BatteriesIndexInStation[id]
            n == get(BatteriesCountInStation, s, 0)
            last == get(BatteriesArrayInStation, <<s, n - 1>>, DefaultHash)
            others == Members(BatteriesArrayInStation, BatteriesCountInStation, s) \ {id}
        IN  /\ i # n - 1 =>
                /\ last # id
                /\ Holds(BatteriesArrayInStation', s, i, last)
                /\ BatteriesIndexInStation'[last] = i
                /\ \A m \in others \ {last} :
                       /\ BatteriesIndexInStation'[m] = BatteriesIndexInStation[m]
                       /\ Holds(BatteriesArrayInStation', s, BatteriesIndexInStation[m], m)
            /\ i = n - 1 =>
                \A m \in others :
                    /\ BatteriesIndexInStation'[m] = BatteriesIndexInStation[m]
                    /\ Holds(BatteriesArrayInStation', s, BatteriesIndexInStation[m], m)
            /\ <<s, n - 1>> \notin DOMAIN BatteriesArrayInStation'
            /\ Members(BatteriesArrayInStation', BatteriesCountInStation', s) = others
            /\ Cardinality(others) = n - 1
      ]_vars

\* The battery in slot 0 of a station holding two has been fetched, and the
\* one that was in slot 1 is now in slot 0.
FetchSwapRemoveWitness ==
    /\ call[1] = "fetch_from_station" /\ result = "Ok"
    /\ Len(events) >= 3
    /\ LET e == events[Len(events)]
           d == events[Len(events) - 1]
           r == events[Len(events) - 2]
       IN  /\ r[1] = "RegistryBattery" /\ d[1] = "RegistryBattery"
           /\ r[2] = d[2]
           /\ e[1] = "FetchFromStation" /\ e[2] = r[3]
           /\ AllBatteriesCount = 2
           /\ BatteriesIndexInStation[d[3]] = 0
           /\ Holds(BatteriesArrayInStation, d[2], 0, d[3])

\* The id an event is about; RegistryStation is about none.
EventId(e) ==
    IF e[1] = "RegistryStation" THEN -1
    ELSE IF e[1] = "RegistryBattery" THEN e[3]
    ELSE e[2]

\* The position in the log of the last event about id that is not a switch.
LastPlaced(id) ==
    LET ks == {k \in 1..Len(events) :
                  EventId(events[k]) = id /\ events[k][1] # "SwitchTradable"}
    IN  IF ks = {} THEN 0 ELSE CHOOSE k \in ks : \A j \in ks : j <= k

\* The number of switches of id since then.
Switches(id) ==
    Cardinality({k \in (LastPlaced(id) + 1)..Len(events) :
                    events[k][1] = "SwitchTradable" /\ events[k][2] = id})

\* C12: while a battery stays in its station, it is tradable exactly after an
\* odd number of switch_tradable calls since it was registered, stored or
\* traded, and each switch_tradable changes that battery's tradable field,
\* nothing else.
SwitchToggles ==
    /\ [](\A id \in Existing :
              Batteries[id].station # None =>
                  (Batteries[id].tradable <=> Switches(id) % 2 = 1))
    /\ [][(call'[1] = "switch_tradable" /\ result' = "Ok") =>
            LET id == call'[3] IN
            /\ Batteries' = [Batteries EXCEPT ![id].tradable = ~Batteries[id].tradable]
            /\ UNCHANGED <<AllBatteriesCount, AllBatteriesArray,
                           OwnedBatteriesCount, OwnedBatteriesArray, OwnedBatteriesIndex,
                           StationsCount, StationsArray, StationsIndex,
                           BatteriesCountInStation, BatteriesArrayInStation,
                           BatteriesIndexInStation>>
         ]_vars

\* A battery has been switched three times in a row and is tradable.
SwitchTogglesWitness ==
    \E id \in Existing :
        /\ Switches(id) = 3
        /\ Batteries[id].station # None
        /\ Batteries[id].tradable

\* Slot i of partition p is the same, held or empty, in both arrays.
SameSlot(array1, array2, p, i) ==
    /\ <<p, i>> \in DOMAIN array1 <=> <<p, i>> \in DOMAIN array2
    /\ <<p, i>> \in DOMAIN array1 => array1[<<p, i>>] = array2[<<p, i>>]

\* C13: store_to_station(s, id) followed at once by fetch_from_station(id)
\* restores s's count and live slots and leaves id without an index entry.
\* In two steps: the store adds one to s's count n and puts id in slot n,
\* leaving the n live slots as they were; the fetch that follows takes the
\* count back to n and leaves those n slots as they were again.
StoreFetchRoundTrip ==
    /\ [][(call'[1] = "store_to_station" /\ result' = "Ok") =>
            LET s == call'[2]
                id == call'[3]
                n == get(BatteriesCountInStation, s, 0)
            IN  /\ Batteries[id].station = None
                /\ id \notin DOMAIN BatteriesIndexInStation
                /\ get(BatteriesCountInStation', s, 0) = n + 1
                /\ Holds(BatteriesArrayInStation', s, n, id)
                /\ BatteriesIndexInStation'[id] = n
                /\ \A i \in 0..(n - 1) :
                       SameSlot(BatteriesArrayInStation', BatteriesArrayInStation, s, i)
         ]_vars
    /\ [][(/\ call[1] = "store_to_station" /\ result = "Ok"
           /\ call'[1] = "fetch_from_station" /\ result' = "Ok"
           /\ call'[3] = call[3]) =>
            LET s == call[2]
                id == call[3]
                n == get(BatteriesCountInStation, s, 0) - 1
            IN  /\ get(BatteriesCountInStation', s, 0) = n
                /\ \A i \in 0..(n - 1) :
                       SameSlot(BatteriesArrayInStation', BatteriesArrayInStation, s, i)
                /\ <<s, n>> \notin DOMAIN BatteriesArrayInStation'
                /\ id \notin DOMAIN BatteriesIndexInStation'
         ]_vars

\* A battery has been stored to a station and fetched from it at once.
StoreFetchWitness ==
    /\ call[1] = "fetch_from_station" /\ result = "Ok"
    /\ Len(events) >= 2
    /\ LET e == events[Len(events)]
           d == events[Len(events) - 1]
       IN  /\ d[1] = "StoreToStation"
           /\ e[1] = "FetchFromStation" /\ e[2] = d[2]
           /\ get(BatteriesCountInStation, d[4], 0) = 0
           /\ d[2] \notin DOMAIN BatteriesIndexInStation

\* C14: battery ids are unique: registry_battery with a hash that is already a
\* battery's id returns an error and changes nothing, no registry_battery
\* changes an existing battery, every battery is stored under its own id, and
\* the global array holds no id at two indices.
IdsUnique ==
    /\ [](/\ \A id \in Existing : Batteries[id].id = id
          /\ \A i, j \in 0..(AllBatteriesCount - 1) :
                 i # j => /\ i \in DOMAIN AllBatteriesArray
                          /\ j \in DOMAIN AllBatteriesArray
                          /\ AllBatteriesArray[i] # AllBatteriesArray[j])
    /\ [][call'[1] = "registry_battery" =>
            /\ call'[4] \in Existing =>
                   /\ result' # "Ok"
                   /\ UNCHANGED <<storage, events>>
            /\ \A id \in Existing :
                   id \in DOMAIN Batteries' /\ Batteries'[id] = Batteries[id]
         ]_vars

\* A station's registry_battery has been refused because the hash is the id of
\* a battery, and that battery is as it was registered.
IdsUniqueWitness ==
    /\ call[1] = "registry_battery"
    /\ result = "Battery already exists!"
    /\ IsStation(call[2])
    /\ call[4] \in Existing
    /\ AllBatteriesCount = 2

\* C15: the registries only grow: in every step each battery stays, with its id
\* and registry_time, each entry of the global array stays as it is, each
\* station stays a station, and AllBatteriesCount and StationsCount do not
\* decrease.
AppendOnly ==
    [][/\ \A id \in Existing :
              /\ id \in DOMAIN Batteries'
              /\ Batteries'[id].id = Batteries[id].id
              /\ Batteries'[id].registry_time = Batteries[id].registry_time
       /\ \A i \in 0..(AllBatteriesCount - 1) :
              /\ i \in DOMAIN AllBatteriesArray
              /\ i \in DOMAIN AllBatteriesArray'
              /\ AllBatteriesArray'[i] = AllBatteriesArray[i]
       /\ \A a \in AccountId : IsStation(a) => a \in DOMAIN StationsIndex'
       /\ AllBatteriesCount' >= AllBatteriesCount
       /\ StationsCount' >= StationsCount
      ]_vars

\* The battery registered first, of two, has been fetched from its station and
\* is still entry 0 of the global array.
AppendOnlyWitness ==
    /\ AllBatteriesCount = 2
    /\ StationsCount >= 1
    /\ \E k \in 1..Len(events) :
           /\ events[k][1] = "FetchFromStation"
           /\ events[k][2] = AllBatteriesArray[0]
    /\ AllBatteriesArray[0] \in Existing
    /\ Batteries[AllBatteriesArray[0]].id = AllBatteriesArray[0]

\* The event the table of operations gives for the successful call c, made
\* with the batteries before and leaving the batteries after.
EventOf(c, before, after) ==
    IF c[1] = "register_station" THEN <<"RegistryStation", c[2]>>
    ELSE IF c[1] = "registry_battery" THEN <<"RegistryBattery", c[2], c[4], c[3]>>
    ELSE IF c[1] = "switch_tradable" THEN <<"SwitchTradable", c[3], after[c[3]].tradable>>
    ELSE IF c[1] = "store_to_station"
        THEN <<"StoreToStation", c[3], before[c[3]].owner, c[2]>>
    ELSE IF c[1] = "fetch_from_station"
        THEN <<"FetchFromStation", c[3], c[2], before[c[3]].owner>>
    ELSE <<"Trade", c[3], before[c[3]].owner, c[4], c[2]>>

\* C16: a call that returns Ok(()) appends one event to the log, the one listed
\* for it with its fields in the listed order, and a call that returns an error
\* appends none; so the log has one event for each call that succeeded.
OneEventPerSuccess ==
    [][IF result' = "Ok"
       THEN events' = Append(events, EventOf(call', Batteries, Batteries'))
       ELSE events' = events
      ]_vars

\* A trade has been logged with the owner before it, the new owner and the
\* station.
OneEventWitness ==
    /\ call[1] = "trade_battery" /\ result = "Ok"
    /\ LET e == events[Len(events)] IN
           /\ e = <<"Trade", call[3], e[3], call[4], call[2]>>
           /\ e[3] # e[4]
           /\ Batteries[call[3]].owner = e[4]
           /\ Batteries[call[3]].station = e[5]

\* C17: a step that changes a battery's owner is a trade_battery to the new
\* owner by a station that holds the battery, which was tradable; a step that
\* takes a battery out of its station is a call by the battery's owner.
Authorized ==
    [][\A id \in Existing :
           /\ Batteries'[id].owner # Batteries[id].owner =>
                  /\ call'[1] = "trade_battery" /\ result' = "Ok"
                  /\ call'[3] = id
                  /\ IsStation(call'[2])
                  /\ Batteries[id].station = call'[2]
                  /\ Batteries[id].tradable
                  /\ Batteries'[id].owner = call'[4]
           /\ (Batteries[id].station # None /\ Batteries'[id].station = None) =>
                  /\ call'[2] = Batteries[id].owner
                  /\ call'[3] = id
      ]_vars

\* The only battery has been traded by its station and then fetched by its
\* new owner.
AuthorizedWitness ==
    /\ AllBatteriesCount = 1
    /\ Len(events) >= 2
    /\ LET e == events[Len(events)]
           d == events[Len(events) - 1]
       IN  /\ d[1] = "Trade"
           /\ e[1] = "FetchFromStation" /\ e[2] = d[2] /\ e[3] = d[4]
           /\ Batteries[e[2]].owner = d[4]
           /\ Batteries[e[2]].station = None

\* The id call c names; register_station names none.
NamedId(c) ==
    IF c[1] = "register_station" THEN -1
    ELSE IF c[1] = "registry_battery" THEN c[4]
    ELSE c[3]

\* C18: switch_tradable, store_to_station and fetch_from_station leave the
\* owners' counts, arrays and indices and every battery's owner as they were;
\* trade_battery leaves the stations' counts, arrays and indices and every
\* battery's station as they were; register_station changes the station items
\* only; and every call leaves the batteries it does not name as they were.
Frame ==
    [][/\ call'[1] \in {"switch_tradable", "store_to_station", "fetch_from_station"} =>
              /\ UNCHANGED <<OwnedBatteriesCount, OwnedBatteriesArray,
                             OwnedBatteriesIndex>>
              /\ \A id \in Existing : Batteries'[id].owner = Batteries[id].owner
       /\ call'[1] = "trade_battery" =>
              /\ UNCHANGED <<BatteriesCountInStation, BatteriesArrayInStation,
                             BatteriesIndexInStation>>
              /\ \A id \in Existing : Batteries'[id].station = Batteries[id].station
       /\ call'[1] = "register_station" =>
              UNCHANGED <<Batteries, AllBatteriesCount, AllBatteriesArray,
                          OwnedBatteriesCount, OwnedBatteriesArray, OwnedBatteriesIndex,
                          BatteriesCountInStation, BatteriesArrayInStation,
                          BatteriesIndexInStation>>
       /\ \A id \in Existing :
              id # NamedId(call') =>
                  id \in DOMAIN Batteries' /\ Batteries'[id] = Batteries[id]
      ]_vars

\* One of two batteries has been stored to a station while the other stayed in
\* its station.
FrameWitness ==
    /\ call[1] = "store_to_station" /\ result = "Ok"
    /\ AllBatteriesCount = 2
    /\ \A id \in Existing : Batteries[id].station # None
    /\ \E o \in AccountId : get(OwnedBatteriesCount, o, 0) >= 1

\* C19: the subtractions on u64 do not underflow: the station of a battery
\* that can be fetched has a count of at least 1, and the owner of a battery
\* that can be traded has a count of at least 1; no count is negative.
NoUnderflow ==
    /\ \A id \in Existing :
           LET battery == Batteries[id] IN
           /\ battery.station # None =>
                  get(BatteriesCountInStation, battery.station, 0) >= 1
           /\ (IsStation(battery.station) /\ battery.tradable
                   /\ \E to \in AccountId : to # battery.owner) =>
                  get(OwnedBatteriesCount, battery.owner, 0) >= 1
    /\ \A a \in AccountId :
           /\ get(BatteriesCountInStation, a, 0) >= 0
           /\ get(OwnedBatteriesCount, a, 0) >= 0

\* A tradable battery is the only one of its station and the only one of its
\* owner: fetching it or trading it takes a count from 1 to 0.
NoUnderflowWitness ==
    \E id \in Existing :
        /\ Batteries[id].tradable
        /\ IsStation(Batteries[id].station)
        /\ get(BatteriesCountInStation, Batteries[id].station, 0) = 1
        /\ get(OwnedBatteriesCount, Batteries[id].owner, 0) = 1
        /\ AllBatteriesCount = 2

\* C20: the owner consents to every trade: a switch_tradable is a call by the
\* battery's owner, a battery's owner changes in a trade of it only, and when
\* trade_battery succeeds the log holds a switch of the battery to tradable
\* later than every registration, store, fetch and trade of it.
OwnerConsent ==
    /\ [][(call'[1] = "switch_tradable" /\ result' = "Ok") =>
              call'[2] = Batteries[call'[3]].owner
         ]_vars
    /\ [][\A id \in Existing :
              Batteries'[id].owner # Batteries[id].owner =>
                  /\ events' # events
                  /\ events'[Len(events')][1] = "Trade"
                  /\ events'[Len(events')][2] = id
         ]_vars
    /\ [][(call'[1] = "trade_battery" /\ result' = "Ok") =>
              \E k \in (LastPlaced(call'[3]) + 1)..Len(events) :
                  events[k] = <<"SwitchTradable", call'[3], TRUE>>
         ]_vars

\* Of two batteries, one has been switched to tradable by its owner and then
\* traded by its station.
OwnerConsentWitness ==
    /\ call[1] = "trade_battery" /\ result = "Ok"
    /\ AllBatteriesCount = 2
    /\ LET e == events[Len(events)]
           d == events[Len(events) - 1]
       IN  /\ d = <<"SwitchTradable", call[3], TRUE>>
           /\ e[1] = "Trade" /\ e[2] = call[3]
           /\ ~Batteries[call[3]].tradable

====
